---------------------------- MODULE Spec2Model ----------------------------
(***************************************************************************)
(* A model of xwcmd's utils module: the compact flag grammar (cleanArg,    *)
(* parseType, splitFlag, parseByChar), the schema compilers built on it    *)
(* (argsHandle, parseCliArgs, formatArgs, parseDefaultParams), the         *)
(* required-argument check (checkRequired) and the command-tree lookups    *)
(* (matchSubCmd, traverseToCall).                                          *)
(*                                                                         *)
(* A JavaScript string is a sequence of characters, each character a       *)
(* one-element TLA+ string; "ESC" stands for the single character U+001B.  *)
(* A JavaScript value that may or may not be a string is a record          *)
(* [t |-> its typeof, v |-> its text].                                     *)
(***************************************************************************)
EXTENDS Integers, Sequences, FiniteSets, TLC

VARIABLES
  args,      \* the entry list (Args) the caller holds; formatArgs mutates it
  subCmds,   \* the command forest: node id -> [name, alias, parent]
  fn,        \* the function called last
  input,     \* the argument(s) that call was given
  ret        \* what that call returned or threw

vars == <<args, subCmds, fn, input, ret>>

----------------------------------------------------------------------------
(* Bounds of the model.                                                    *)

MaxEntries == 2

MaxAlias == 2

MaxParams == 2

MaxArgv == 2

MaxNodes == 3

----------------------------------------------------------------------------
(* Strings.                                                                *)

ESC == "ESC"

Range(s) == { s[k] : k \in 1..Len(s) }

\* F applied to the value of x: x is evaluated once, where passing the
\* expression x to F would evaluate it at each use of F's parameter
With(x, F(_)) == CHOOSE r \in { F(v) : v \in {x} } : TRUE

\* String.prototype.indexOf, 1-based; 0 when c does not occur
IndexOf(s, c) ==
  IF \E k \in 1..Len(s) : s[k] = c
  THEN CHOOSE k \in 1..Len(s) : s[k] = c /\ \A m \in 1..(k-1) : s[m] # c
  ELSE 0

\* String.prototype.lastIndexOf, 1-based; 0 when c does not occur
LastIndexOf(s, c) ==
  IF \E k \in 1..Len(s) : s[k] = c
  THEN CHOOSE k \in 1..Len(s) : s[k] = c /\ \A m \in (k+1)..Len(s) : s[m] # c
  ELSE 0

StartsWith(s, p) == Len(s) >= Len(p) /\ SubSeq(s, 1, Len(p)) = p

EndsWith(s, p) == Len(s) >= Len(p) /\ SubSeq(s, Len(s) - Len(p) + 1, Len(s)) = p

Drop(s, n) == SubSeq(s, n + 1, Len(s))

\* String.prototype.trim: the only white space of the alphabet is " "
trim(s) ==
  IF \A k \in 1..Len(s) : s[k] = " "
  THEN << >>
  ELSE LET a == CHOOSE k \in 1..Len(s) : s[k] # " " /\ \A m \in 1..(k-1) : s[m] = " "
           b == CHOOSE k \in 1..Len(s) : s[k] # " " /\ \A m \in (k+1)..Len(s) : s[m] = " "
       IN  SubSeq(s, a, b)

\* every occurrence of character c replaced by d
MapChar(s, c, d) == [k \in 1..Len(s) |-> IF s[k] = c THEN d ELSE s[k]]

\* Array.prototype.join(',')
RECURSIVE join(_)
join(segs) ==
  IF Len(segs) = 0 THEN << >>
  ELSE IF Len(segs) = 1 THEN segs[1]
  ELSE segs[1] \o <<",">> \o join(Tail(segs))

----------------------------------------------------------------------------
\* strip-ansi 7 (ansi-regex 6) removes every match of: one of U+001B, U+009B;
\* any run of the prefix characters [ ] ( ) # ; ? ; then either a sequence
\* closed by BEL, or an optional parameter (one to four digits, then groups
\* of ";" and up to four digits) and one final character of the class
\* digit, A-P, R-T, Z, c, f-n, q-u, y, =, >, <, ~.
\* The alphabet has no BEL and no ";", so a match is ESC, a run of prefix
\* characters, at most four digits, one final character.

AnsiPrefixChars == {"[", "]", "#"}

AnsiDigits == {"3", "4", "9"}

\* the characters of the alphabet that lie in [\dA-PR-TZcf-nq-uy=><~]
AnsiFinalChars ==
  AnsiDigits \cup {"c", "f", "g", "h", "i", "j", "k", "l", "m", "n",
                   "q", "r", "s", "t", "u", "y", "=", ">", "<", "~"}

\* the match of the pattern at position i is ESC, p prefix characters, k digits, a final character
AnsiMatches(s, i, p, k) ==
  /\ s[i] = ESC
  /\ i + p + k + 1 <= Len(s)
  /\ \A m \in (i+1)..(i+p) : s[m] \in AnsiPrefixChars
  /\ \A m \in (i+p+1)..(i+p+k) : s[m] \in AnsiDigits
  /\ s[i+p+k+1] \in AnsiFinalChars

\* length of the match the regex engine finds at i (0: none): the longest
\* prefix run first (greedy star), then the longest digit run (greedy {1,4})
AnsiMatchLen(s, i) ==
  LET cand == { <<p, k>> \in (0..Len(s)) \X (0..4) : AnsiMatches(s, i, p, k) }
  IN  IF cand = {} THEN 0
      ELSE LET best == CHOOSE c \in cand :
                         \A d \in cand : d[1] < c[1] \/ (d[1] = c[1] /\ d[2] <= c[2])
           IN  best[1] + best[2] + 2

RECURSIVE stripFrom(_, _)
stripFrom(s, i) ==
  IF i > Len(s) THEN << >>
  ELSE LET n == AnsiMatchLen(s, i)
       IN  IF n > 0 THEN stripFrom(s, i + n)
           ELSE <<s[i]>> \o stripFrom(s, i + 1)

stripAnsi(s) == With(s, LAMBDA v : stripFrom(v, 1))

----------------------------------------------------------------------------
(* The sigil grammar.                                                      *)

\* val.replace(/<.*>/, ''): the leftmost "<" that some ">" follows, up to the last ">"
RemoveHint(val) ==
  LET i == IndexOf(val, "<")
      j == LastIndexOf(val, ">")
  IN  IF i > 0 /\ j > i THEN SubSeq(val, 1, i - 1) \o Drop(val, j) ELSE val

\* .replace(/(\[.*\])/g, a => a.replace(/\|/g, '#')): the one match runs
\* from the first "[" to the last "]"
EscapeGroupPipes(val) ==
  LET i == IndexOf(val, "[")
      j == LastIndexOf(val, "]")
  IN  IF i > 0 /\ j > i
      THEN SubSeq(val, 1, i - 1) \o MapChar(SubSeq(val, i, j), "|", "#") \o Drop(val, j)
      ELSE val

\* .replace(/\|.+$/, ''): from the first "|" that at least one character follows
RemoveTypeSuffix(val) ==
  LET i == IndexOf(val, "|")
  IN  IF i > 0 /\ i < Len(val) THEN SubSeq(val, 1, i - 1) ELSE val

\* .replace('#', '|'): a string pattern replaces the first occurrence only
RestoreFirstPipe(val) ==
  LET i == IndexOf(val, "#")
  IN  IF i > 0 THEN [val EXCEPT ![i] = "|"] ELSE val

\* .replace(/^(!|\.\.\.|-)/, '')
RemoveSigil(val) ==
  IF StartsWith(val, <<"!">>) THEN Drop(val, 1)
  ELSE IF StartsWith(val, <<".", ".", ".">>) THEN Drop(val, 3)
  ELSE IF StartsWith(val, <<"-">>) THEN Drop(val, 1)
  ELSE val

\* the chain of replacements of cleanArg, in the order the code applies them
cleanArg(val) ==
  With(With(With(With(With(With(val,
    RemoveHint), EscapeGroupPipes), RemoveTypeSuffix), RestoreFirstPipe), RemoveSigil), trim)

\* parseByChar with a lazy group, /<([^]*?)>/: up to the first ">"
parseByCharLazy(val) ==
  LET i == IndexOf(val, "<")
      after == { j \in (i + 1)..Len(val) : val[j] = ">" }
  IN  IF i > 0 /\ after # {}
      THEN SubSeq(val, i + 1, (CHOOSE j \in after : \A m \in after : j <= m) - 1)
      ELSE << >>

\* the greedy match of /<([^]*)>/: the leftmost "<" some ">" follows, the last ">"
parseByChar(val) ==
  LET starts == { i \in 1..Len(val) : val[i] = "<" /\ \E j \in (i+1)..Len(val) : val[j] = ">" }
  IN  IF starts = {} THEN << >>
      ELSE LET i == CHOOSE x \in starts : \A y \in starts : x <= y
               ends == { j \in (i+1)..Len(val) : val[j] = ">" }
               j == CHOOSE x \in ends : \A y \in ends : y <= x
           IN  SubSeq(val, i + 1, j - 1)

\* the switch of parseType on value.replace(/<.*>/, '').charAt(0)
SigilType(value) ==
  LET v == RemoveHint(value)
      c == IF Len(v) > 0 THEN v[1] ELSE ""
  IN  IF c = "-" THEN "number"
      ELSE IF c = "!" THEN "boolean"
      ELSE IF c = "." THEN "array"
      ELSE "string"

parseType(value) == With(value, LAMBDA v : <<SigilType(v), cleanArg(v)>>)

\* val.replace(/\[(.+)\]/, ''): the first "[", at least one character, the last "]"
RemoveGroup(val) ==
  LET i == IndexOf(val, "[")
      j == LastIndexOf(val, "]")
  IN  IF i > 0 /\ j >= i + 2 THEN SubSeq(val, 1, i - 1) \o Drop(val, j) ELSE val

\* /,(?![^<]*>)/ matches the comma at k: no ">" follows it with no "<" in between
IsSplitComma(s, k) ==
  /\ s[k] = ","
  /\ ~ \E m \in (k+1)..Len(s) :
         s[m] = ">" /\ \A n \in (k+1)..(m-1) : s[n] # "<"

\* String.prototype.split at the positions cut, from position from on
RECURSIVE SplitAt(_, _, _)
SplitAt(s, cut, from) ==
  IF \A k \in from..Len(s) : k \notin cut
  THEN << SubSeq(s, from, Len(s)) >>
  ELSE With(CHOOSE k \in from..Len(s) : k \in cut /\ \A m \in from..(k-1) : m \notin cut,
            LAMBDA k : << SubSeq(s, from, k - 1) >> \o SplitAt(s, cut, k + 1))

\* .map((f) => f.trim())
TrimAll(segs) == [k \in 1..Len(segs) |-> trim(segs[k])]

\* .split(/,(?![^<]*>)/)
SplitOutsideHints(s) == SplitAt(s, { k \in 1..Len(s) : IsSplitComma(s, k) }, 1)

splitFlag(val) == With(With(With(val, RemoveGroup), SplitOutsideHints), TrimAll)

----------------------------------------------------------------------------
(* JavaScript values and the option schema (CmdOptions).                   *)

Str(v) == [t |-> "string", v |-> v]

Undefined == [t |-> "undefined", v |-> << >>]

\* the k-th element of a JavaScript array, undefined past its end
Get(arr, k) == IF k <= Len(arr) THEN arr[k] ELSE Undefined

\* obj[key] = value
Put(obj, key, value) ==
  [x \in (DOMAIN obj) \cup {key} |-> IF x = key THEN value ELSE obj[x]]

\* the object parseCliArgs starts from; a type bucket that does not exist
\* yet is the empty list
EmptyOptions ==
  [string |-> << >>, boolean |-> << >>, number |-> << >>, array |-> << >>,
   alias |-> << >>, default |-> << >>, description |-> << >>, hints |-> << >>,
   required |-> << >>]

\* options[type] ? options[type].push(val) : (options[type] = [val])
PushBucket(options, type, val) ==
  IF type = "number" THEN [options EXCEPT !.number = Append(@, val)]
  ELSE IF type = "boolean" THEN [options EXCEPT !.boolean = Append(@, val)]
  ELSE IF type = "array" THEN [options EXCEPT !.array = Append(@, val)]
  ELSE [options EXCEPT !.string = Append(@, val)]

\* the body of argsHandle's forEach: the aliases cleaned, and the last
\* segment registered under the type and name parseType gives it
Register(options, flagArr, description, defaultValue) ==
  With(stripAnsi(flagArr[Len(flagArr)]), LAMBDA draftFlag :
  With(parseType(draftFlag), LAMBDA parsed :
  With([k \in 1..(Len(flagArr) - 1) |-> cleanArg(stripAnsi(flagArr[k]))], LAMBDA alias :
    LET type == parsed[1]
        isRequired == EndsWith(parsed[2], <<"!">>)
        val == IF isRequired THEN SubSeq(parsed[2], 1, Len(parsed[2]) - 1)
               ELSE parsed[2]
    IN  [ PushBucket(options, type, val) EXCEPT
            !.required = IF isRequired THEN Append(@, val) ELSE @,
            !.alias = Put(@, val, alias),
            !.default = IF defaultValue.t # "undefined"
                        THEN Put(@, val, defaultValue) ELSE @,
            !.description = Put(@, val, IF description.t = "undefined"
                                        THEN Str(<< >>) ELSE description),
            !.hints = Put(@, val, parseByChar(draftFlag)) ])))

\* argsHandle: a TypeError when flags has no replace method, else the
\* options with the entry's descriptor registered
argsHandle(entry, options) ==
  IF Get(entry, 1).t # "string"
  THEN [kind |-> "TypeError", options |-> options]
  ELSE With(splitFlag(Get(entry, 1).v), LAMBDA flagArr :
         [kind |-> "ok",
          options |-> Register(options, flagArr, Get(entry, 2), Get(entry, 3))])

\* args.forEach(arg => argsHandle(arg, options)) from entry k on
RECURSIVE handleFrom(_, _, _)
handleFrom(list, k, options) ==
  IF k > Len(list) THEN [kind |-> "ok", options |-> options]
  ELSE With(argsHandle(list[k], options), LAMBDA r :
         IF r.kind # "ok" THEN r ELSE handleFrom(list, k + 1, r.options))

parseCliArgs(list) == handleFrom(list, 1, EmptyOptions)

\* the row formatArgs returns for the flags string flags, rest being the
\* entry after arg.shift(); alias.pop() is undefined for an empty array only
FormatRow(flags, rest) ==
  With(splitFlag(flags), LAMBDA segs :
    IF Len(segs) = 0
    THEN [kind |-> "XWCMDError", entry |-> rest, row |-> << >>]
    ELSE With(segs[Len(segs)], LAMBDA flag :
         With(parseType(stripAnsi(flag)), LAMBDA parsed :
           [kind |-> "ok", entry |-> rest,
            row |-> [alias |-> join(SubSeq(segs, 1, Len(segs) - 1)),
                     name |-> parsed[2], hint |-> parseByChar(flag),
                     type |-> parsed[1], rest |-> rest]])))

\* one step of formatArgs' map callback on an entry: the entry after
\* arg.shift(), and the row returned or the error thrown
formatEntry(entry) ==
  LET flags == Get(entry, 1)
      rest == IF Len(entry) > 0 THEN Tail(entry) ELSE entry
  IN  IF flags.t # "string"
      THEN [kind |-> "XWCMDError", entry |-> rest, row |-> << >>]
      ELSE FormatRow(flags.v, rest)

\* args.map(...) from entry k on: list is the entry list as mutated so far
RECURSIVE formatFrom(_, _, _)
formatFrom(list, k, rows) ==
  IF k > Len(list) THEN [kind |-> "ok", rows |-> rows, args |-> list]
  ELSE With(formatEntry(list[k]), LAMBDA r :
       With([list EXCEPT ![k] = r.entry], LAMBDA list1 :
         IF r.kind # "ok"
         THEN [kind |-> r.kind, rows |-> << >>, args |-> list1]
         ELSE formatFrom(list1, k + 1, Append(rows, r.row))))

formatArgs(list) == formatFrom(list, 1, << >>)

\* String.prototype.split(','): at every comma
splitComma(s) == SplitAt(s, { k \in 1..Len(s) : s[k] = "," }, 1)

\* p.replace(/!$/, '')
RemoveFinalBang(p) ==
  IF EndsWith(p, <<"!">>) THEN SubSeq(p, 1, Len(p) - 1) ELSE p

\* the forEach of parseDefaultParams from piece k on
RECURSIVE paramsFrom(_, _, _, _)
paramsFrom(pieces, k, options, positional) ==
  IF k > Len(pieces) THEN [kind |-> "ok", options |-> options, positional |-> positional]
  ELSE With(trim(pieces[k]), LAMBDA p :
       With(argsHandle(<<Str(p), Str(<< >>)>>, options), LAMBDA r :
       With(Append(positional, cleanArg(RemoveFinalBang(p))), LAMBDA positional1 :
         paramsFrom(pieces, k + 1, r.options, positional1))))

\* parseDefaultParams: undefined when no "[...]" holds a character
parseDefaultParams(defaultFlag) ==
  LET i == IndexOf(defaultFlag, "[")
      j == LastIndexOf(defaultFlag, "]")
      params == IF i > 0 /\ j > i THEN SubSeq(defaultFlag, i + 1, j - 1) ELSE << >>
  IN  IF Len(params) > 0
      THEN With(splitComma(params), LAMBDA pieces :
             paramsFrom(pieces, 1, EmptyOptions, << >>))
      ELSE [kind |-> "undefined", options |-> EmptyOptions, positional |-> << >>]

\* checkRequired: args.some(...) looks the tokens up in options.alias and
\* its result is dropped; the function returns undefined and never throws
checkRequired(options, argv) ==
  LET some == \E k \in 1..Len(argv) : argv[k] \in DOMAIN options.alias
  IN  [kind |-> "ok", value |-> Undefined]

----------------------------------------------------------------------------
(* The command tree.  nodes is a sequence of [name, alias, parent]: the     *)
(* node's meta and the index of its parent (0 for a top-level command);     *)
(* a node's subs are its children in declaration (index) order.             *)

\* matchSubCmd comparing the keys as written, colour codes included
matchSubCmdUnstripped(meta, currentCmd) ==
  LET keys == meta.alias \o <<meta.name>>
  IN  \E k \in 1..Len(keys) : keys[k] = currentCmd

matchSubCmd(meta, currentCmd) ==
  LET keys == meta.alias \o <<meta.name>>
  IN  \E k \in 1..Len(keys) : stripAnsi(keys[k]) = currentCmd

RECURSIVE idsFrom(_, _, _)
idsFrom(nodes, p, k) ==
  IF k > Len(nodes) THEN << >>
  ELSE IF nodes[k].parent = p THEN <<k>> \o idsFrom(nodes, p, k + 1)
  ELSE idsFrom(nodes, p, k + 1)

\* the subs of node p (the top-level commands for p = 0)
subs(nodes, p) == idsFrom(nodes, p, 1)

\* subCmds.some(...) over the commands ids, argv being the shared array
RECURSIVE traverseSome(_, _, _, _)
traverseSome(nodes, name, ids, argv) ==
  IF Len(ids) = 0 THEN [matched |-> FALSE, argv |-> argv]
  ELSE With(Append(argv, nodes[Head(ids)].name), LAMBDA argv1 :
         IF matchSubCmd(nodes[Head(ids)], name)
         THEN [matched |-> TRUE, argv |-> argv1]
         ELSE With(traverseSome(nodes, name, subs(nodes, Head(ids)), argv1), LAMBDA r :
                IF r.matched THEN r
                ELSE traverseSome(nodes, name, Tail(ids), r.argv)))

\* traverseToCall(name, subCmds): false, or the array argv
traverseToCall(name, nodes) ==
  With(traverseSome(nodes, name, subs(nodes, 0), << >>), LAMBDA r :
    IF r.matched THEN [kind |-> "ok", found |-> TRUE, path |-> r.argv]
    ELSE [kind |-> "ok", found |-> FALSE, path |-> << >>])

----------------------------------------------------------------------------
(* The inputs the model draws from.                                        *)

\* picocolors' blue: ESC[34m ... ESC[39m
blue(s) == <<ESC, "[", "3", "4", "m">> \o s \o <<ESC, "[", "3", "9", "m">>

TypeNames ==
  [string |-> <<"s", "t", "r", "i", "n", "g">>, boolean |-> <<"b", "o", "o", "l", "e", "a", "n">>, number |-> <<"n", "u", "m", "b", "e", "r">>, array |-> <<"a", "r", "r", "a", "y">>]

Types == {"string", "boolean", "number", "array"}

Sigils == {<< >>, <<"!">>, <<"-">>, <<".", ".", ".">>}

Bangs == {<< >>, <<"!">>}

TypeSuffixes == {<< >>, <<"|", "a", "r", "r", "a", "y">>, <<" ", "|", "b", "o", "o", "l", "e", "a", "n">>, <<"|", " ", "n", "u", "m", "b", "e", "r">>, <<"|", "s", "t", "r", "i", "n", "g">>}

\* sigil, name, required mark, hint, type suffix
TypedFlags ==
  { sg \o <<"a">> \o bg \o h \o ts :
      sg \in Sigils, bg \in Bangs, h \in {<< >>, <<" ", "<", "h", ">">>}, ts \in TypeSuffixes }

AliasSegs == {<<"b", ",">>, <<" ", "-", "c", ",", " ">>}

RECURSIVE AliasPrefixes(_)
AliasPrefixes(n) ==
  IF n = 0 THEN {<< >>}
  ELSE LET shorter == AliasPrefixes(n - 1)
       IN  shorter \cup { a \o pre : a \in AliasSegs, pre \in shorter }

HintedFlags == {<<"a">>, <<"!", "a", " ", "<", "h", ">">>, <<"a", " ", "<", "x", ",", "y", ">">>, <<"a", " ", "<", "x", ",", "<", "y", ">", ">">>, <<"a", " ", "<", "x", ">", " ", "<", "y", ">">>, <<"a", ">">>, <<"a", "!", " ", "<", "x", "|", "y", ">">>}

AliasedFlags == { pre \o f : pre \in AliasPrefixes(MaxAlias), f \in HintedFlags }

\* flags strings with no name, and stray grammar characters
DegenerateFlags ==
  {<< >>, <<" ">>, <<"<", "h", ">">>, <<"|", "a", "r", "r", "a", "y">>, <<"[", "p", "]">>, <<",">>, <<"!">>, <<"a", ",">>, <<"#", "a", " ", "[", "p", "|", "a", "r", "r", "a", "y", "]">>, <<".", "a">>}

\* coloured names and positional groups
StyledFlags ==
  {blue(<<"a">>), <<"b", ",">> \o blue(<<"a">>) \o <<" ", "<", "h", ">">>, blue(<<"!", "a">>), <<"!">> \o blue(<<"a">>),
   blue(<<"a">>) \o <<" ", "[", "p", "]">>, <<"a", " ", "[", "p", "]">>, <<"a", " ", "[", "p", "|", "a", "r", "r", "a", "y", "]", "|", "n", "u", "m", "b", "e", "r">>, <<"b", ",", " ", "a", " ", "[", "p", "!", ",", " ", ".", ".", ".", "q", "]", " ", "<", "h", ">">>,
   blue(<<"b">>) \o <<",">> \o blue(<<"a", "!">>)}

FlagStrings == TypedFlags \cup AliasedFlags \cup DegenerateFlags \cup StyledFlags

Description == Str(<<"d">>)

\* entries of a single-entry list: every flags string, and flags that are
\* not strings
SingleEntries ==
  { <<Str(f), Description>> : f \in FlagStrings }
    \cup { << >>, <<[t |-> "number", v |-> <<"4">>], Description>>,
           <<Str(<<"!", "a">>), Description, [t |-> "boolean", v |-> <<"f">>]>> }

\* entries of the longer lists
CoreEntries ==
  { <<Str(<<"a">>), Description>>, <<Str(<<"!", "a">>), Description>>,
    <<Str(<<"b", ",", "a", "!">>), Description, Str(<<"x">>)>>, <<Str(<<"c", ",", " ", "-", "b", " ", "<", "h", ">">>), Description>>,
    <<[t |-> "number", v |-> <<"4">>], Description>>, <<Str(<< >>), Description>> }

RECURSIVE EntryLists(_)
EntryLists(n) ==
  IF n = 0 THEN {<< >>}
  ELSE LET shorter == EntryLists(n - 1)
       IN  shorter \cup { <<e>> \o l : e \in CoreEntries, l \in { x \in shorter : Len(x) = n - 1 } }

ArgsInputs == { <<e>> : e \in SingleEntries } \cup EntryLists(MaxEntries)

\* process tokens
Tokens == {<<"a">>, <<"b">>, <<"-", "-", "a">>}

RECURSIVE TokenLists(_)
TokenLists(n) ==
  IF n = 0 THEN {<< >>}
  ELSE LET shorter == TokenLists(n - 1)
       IN  shorter \cup { <<t>> \o l : t \in Tokens, l \in shorter }

ArgvInputs == TokenLists(MaxArgv)

\* the pieces of a positional parameter list
ParamPieces ==
  { sg \o n \o bg \o ts : sg \in {<< >>, <<".", ".", ".">>}, n \in {<<"p">>, <<"q">>}, bg \in Bangs,
                          ts \in {<< >>, <<"|", "b", "o", "o", "l", "e", "a", "n">>} }
    \cup {<<" ", "p", "!", " ">>, <<"!", "p", "!", " ", "<", "h", ">">>, <<"p", " ", "[", "q", "!", "|", "a", "r", "r", "a", "y", "]">>, <<"-", "p", "!", "|", "n", "u", "m", "b", "e", "r">>}

RECURSIVE ParamLists(_)
ParamLists(n) ==
  IF n = 1 THEN ParamPieces
  ELSE LET shorter == ParamLists(n - 1)
       IN  shorter \cup { p \o <<",">> \o l : p \in ParamPieces, l \in shorter }

DefaultFlagInputs ==
  { <<"[">> \o l \o <<"]">> : l \in ParamLists(MaxParams) }
    \cup {<< >>, <<"[", "]">>, <<"p">>, <<"i", ",", " ", "i", "n", "s", "t", "a", "l", "l", " ", "[", "p", "!", ",", " ", ".", ".", ".", "q", "]">>, <<"[", "x", ",", "e", "x", "e", "c", "u", "t", "e", " ", "[", "p", "!", "|", "a", "r", "r", "a", "y", "]", "]">>}

\* the metas of command nodes: name and aliases, plain or coloured
Metas ==
  { [name |-> <<"a">>, alias |-> << >>],
    [name |-> <<"b">>, alias |-> <<<<"c">>>>],
    [name |-> blue(<<"a">>), alias |-> <<blue(<<"c">>), <<"d">>>>],
    [name |-> <<"d">>, alias |-> <<<<"A">>>>] }

CmdTokens == {<<"a">>, <<"b">>, <<"c">>, <<"d">>, <<"A">>, blue(<<"a">>), <<"e">>}

\* every forest of n nodes: node k hangs under an earlier node or at the top
RECURSIVE Forests(_)
Forests(n) ==
  IF n = 0 THEN {<< >>}
  ELSE LET smaller == Forests(n - 1)
       IN  smaller \cup
           { Append(f, [name |-> m.name, alias |-> m.alias, parent |-> p]) :
               f \in { x \in smaller : Len(x) = n - 1 }, m \in Metas, p \in 0..(n - 1) }

----------------------------------------------------------------------------
(* Schema compilation: the caller holds an entry list and calls the        *)
(* exported functions on it, in any order and any number of times.         *)

NoCall == [kind |-> "none"]

Init ==
  /\ args \in ArgsInputs
  /\ subCmds = << >>
  /\ fn = "none"
  /\ input = << >>
  /\ ret = NoCall

\* the entries of args whose flags field is a string
StringEntries == { k \in 1..Len(args) : Get(args[k], 1).t = "string" }

\* parseCliArgs(args)
ParseCliArgs ==
  /\ fn' = "parseCliArgs"
  /\ input' = args
  /\ ret' = parseCliArgs(args)
  /\ UNCHANGED <<args, subCmds>>

\* formatArgs(args): arg.shift() changes the entries of the caller's list
FormatArgs ==
  LET r == formatArgs(args)
  IN  /\ fn' = "formatArgs"
      /\ input' = args
      /\ ret' = [kind |-> r.kind, rows |-> r.rows]
      /\ args' = r.args
      /\ UNCHANGED subCmds

\* checkRequired(options, argv) on the schema parseCliArgs just returned
CheckRequired ==
  /\ fn = "parseCliArgs"
  /\ ret.kind = "ok"
  /\ \E argv \in ArgvInputs :
       /\ fn' = "checkRequired"
       /\ input' = [options |-> ret.options, argv |-> argv]
       /\ ret' = checkRequired(ret.options, argv)
  /\ UNCHANGED <<args, subCmds>>

\* splitFlag on the flags string of an entry
SplitFlag ==
  \E k \in StringEntries :
    /\ fn' = "splitFlag"
    /\ input' = args[k][1].v
    /\ ret' = [kind |-> "ok", value |-> splitFlag(args[k][1].v)]
    /\ UNCHANGED <<args, subCmds>>

\* parseType on the flags string of an entry
ParseType ==
  \E k \in StringEntries :
    /\ fn' = "parseType"
    /\ input' = args[k][1].v
    /\ ret' = [kind |-> "ok", value |-> parseType(args[k][1].v)]
    /\ UNCHANGED <<args, subCmds>>

\* parseByChar on the flags string of an entry
ParseByChar ==
  \E k \in StringEntries :
    /\ fn' = "parseByChar"
    /\ input' = args[k][1].v
    /\ ret' = [kind |-> "ok", value |-> parseByChar(args[k][1].v)]
    /\ UNCHANGED <<args, subCmds>>

Next ==
  \/ ParseCliArgs
  \/ FormatArgs
  \/ CheckRequired
  \/ SplitFlag
  \/ ParseType
  \/ ParseByChar

Spec == Init /\ [][Next]_vars

----------------------------------------------------------------------------
(* Positional parameter lists: parseDefaultParams on a default-command     *)
(* declaration.                                                            *)

InitDefault ==
  /\ args = << >>
  /\ subCmds = << >>
  /\ fn = "none"
  /\ input \in DefaultFlagInputs
  /\ ret = NoCall

\* parseDefaultParams(defaultFlag)
ParseDefaultParams ==
  /\ fn = "none"
  /\ fn' = "parseDefaultParams"
  /\ ret' = parseDefaultParams(input)
  /\ UNCHANGED <<args, subCmds, input>>

NextDefault == ParseDefaultParams

SpecDefault == InitDefault /\ [][NextDefault]_vars

----------------------------------------------------------------------------
(* Command resolution on a declared command forest: a run looks one token  *)
(* up, in one node or in the whole forest.                                 *)

InitTree ==
  /\ args = << >>
  /\ subCmds \in Forests(MaxNodes)
  /\ fn = "none"
  /\ input = << >>
  /\ ret = NoCall

\* matchSubCmd(meta, currentCmd) on a node of the forest
MatchSubCmd ==
  \E n \in 1..Len(subCmds), token \in CmdTokens :
    /\ fn = "none"
    /\ fn' = "matchSubCmd"
    /\ input' = [node |-> n, token |-> token]
    /\ ret' = [kind |-> "ok", value |-> matchSubCmd(subCmds[n], token)]
    /\ UNCHANGED <<args, subCmds>>

\* traverseToCall(name, subCmds)
TraverseToCall ==
  \E name \in CmdTokens :
    /\ fn = "none"
    /\ fn' = "traverseToCall"
    /\ input' = [node |-> 0, token |-> name]
    /\ ret' = traverseToCall(name, subCmds)
    /\ UNCHANGED <<args, subCmds>>

NextTree ==
  \/ MatchSubCmd
  \/ TraverseToCall

SpecTree == InitTree /\ [][NextTree]_vars

----------------------------------------------------------------------------
(* Properties.                                                             *)

\* the names of the four type buckets of a schema, one after the other
BucketNames(options) ==
  options.string \o options.boolean \o options.number \o options.array

Bucket(options, type) ==
  IF type = "number" THEN options.number
  ELSE IF type = "boolean" THEN options.boolean
  ELSE IF type = "array" THEN options.array
  ELSE options.string

\* the type a segment names after its "|", "none" when it names none
DeclaredType(seg) ==
  LET named == { T \in Types :
                   /\ EndsWith(trim(seg), TypeNames[T])
                   /\ EndsWith(trim(SubSeq(trim(seg), 1, Len(trim(seg)) - Len(TypeNames[T]))),
                               <<"|">>) }
  IN  IF named = {} THEN "none" ELSE CHOOSE T \in named : TRUE

\* the canonical segment of a flags string, and the name it is stored under
CanonicalSegment(flags) == stripAnsi(splitFlag(flags)[Len(splitFlag(flags))])

StoredName(flags) == RemoveFinalBang(cleanArg(CanonicalSegment(flags)))

\* C1: a canonical segment `name |T` is registered under the type T its
\* suffix names: parseType returns T for it, and parseCliArgs lists the
\* name in bucket T.
C1_SuffixNamesTheType ==
  /\ (fn = "parseType" /\ Len(splitFlag(input)) = 1 /\ ret.value[2] # << >>
        /\ DeclaredType(input) # "none")
       => ret.value[1] = DeclaredType(input)
  /\ (fn = "parseCliArgs" /\ ret.kind = "ok")
       => \A k \in 1..Len(input) :
            LET flags == input[k][1].v
                T == DeclaredType(CanonicalSegment(flags))
            IN  (T # "none" /\ StoredName(flags) # << >>) =>
                  \E m \in 1..Len(Bucket(ret.options, T)) :
                    Bucket(ret.options, T)[m] = StoredName(flags)

\* the entries of an entry list whose flags field is not a string
NonStringEntries(list) == { k \in 1..Len(list) : Get(list[k], 1).t # "string" }

\* C2: compiling a list with an entry whose flags field is not a string
\* fails with XWCMDError, in parseCliArgs as in formatArgs.
C2_NonStringFlagsIsXWCMDError ==
  (fn \in {"parseCliArgs", "formatArgs"} /\ NonStringEntries(input) # {})
    => ret.kind = "XWCMDError"

\* flags strings that yield no canonical name: empty, white space, only a
\* hint, only a bracket group, only a type suffix
NamelessFlags == {<< >>, <<" ">>, <<"<", "h", ">">>, <<"[", "p", "]">>, <<"|", "a", "r", "r", "a", "y">>}

\* C3: formatArgs raises XWCMDError for a flags string that yields no
\* canonical name, and returns no descriptor with an empty name.
C3_NoNameIsXWCMDError ==
  fn = "formatArgs" =>
    /\ (\E k \in 1..Len(input) :
          Get(input[k], 1).t = "string" /\ Get(input[k], 1).v \in NamelessFlags)
         => ret.kind = "XWCMDError"
    /\ ret.kind = "ok" => \A k \in 1..Len(ret.rows) : ret.rows[k].name # << >>

\* C4: after parseCliArgs no canonical name occurs twice across the string,
\* boolean, number and array buckets, whatever names the entries declare.
C4_NamesOccurOnce ==
  (fn = "parseCliArgs" /\ ret.kind = "ok" /\ << >> \notin Range(BucketNames(ret.options)))
    => \A i, j \in 1..Len(BucketNames(ret.options)) :
         i # j => BucketNames(ret.options)[i] # BucketNames(ret.options)[j]

\* C5: parseDefaultParams records a piece under one name everywhere: every
\* entry of the positional sequence is a name of a type bucket, and a
\* required name is an entry of the positional sequence.
C5_PositionalNamesAreBucketNames ==
  (fn = "parseDefaultParams" /\ ret.kind = "ok")
    => /\ \A k \in 1..Len(ret.positional) :
            ret.positional[k] \in Range(BucketNames(ret.options))
       /\ \A k \in 1..Len(ret.options.required) :
            ret.options.required[k] \in Range(ret.positional)

\* the number of "<" before position k of s that no ">" before k closes
RECURSIVE OpenHints(_, _)
OpenHints(s, k) ==
  IF k <= 1 THEN 0
  ELSE LET d == OpenHints(s, k - 1)
       IN  IF s[k - 1] = "<" THEN d + 1
           ELSE IF s[k - 1] = ">" /\ d > 0 THEN d - 1
           ELSE d

\* every ">" of s closes a "<", and every "<" is closed
WellFormedHints(s) ==
  /\ \A k \in 1..Len(s) : s[k] = ">" => OpenHints(s, k) > 0
  /\ OpenHints(s, Len(s) + 1) = 0

\* the commas of s that lie in no hint
CommasOutsideHints(s) == { k \in 1..Len(s) : s[k] = "," /\ OpenHints(s, k) = 0 }

\* C6: splitFlag splits at every comma outside the hints and the bracket
\* group and at no comma between a "<" and its closing ">", nested hints
\* included; argsHandle registers each earlier segment, in order, as one
\* alias of the canonical name.
C6_SplitsOutsideHintsOnly ==
  /\ (fn = "splitFlag" /\ WellFormedHints(input))
       => ret.value = TrimAll(SplitAt(RemoveGroup(input),
                                      CommasOutsideHints(RemoveGroup(input)), 1))
  /\ (fn = "parseCliArgs" /\ ret.kind = "ok" /\ Len(input) = 1
        /\ WellFormedHints(input[1][1].v))
       => LET flags == input[1][1].v
              segs == TrimAll(SplitAt(RemoveGroup(flags),
                                      CommasOutsideHints(RemoveGroup(flags)), 1))
          IN  /\ DOMAIN ret.options.alias = {StoredName(segs[Len(segs)])}
              /\ \A n \in DOMAIN ret.options.alias :
                   ret.options.alias[n] =
                     [k \in 1..(Len(segs) - 1) |-> cleanArg(stripAnsi(segs[k]))]

\* the required names of a schema that a token list names neither directly
\* nor by an alias
MissingRequired(options, argv) ==
  { n \in Range(options.required) :
      /\ n \notin Range(argv)
      /\ \A k \in 1..Len(options.alias[n]) : options.alias[n][k] \notin Range(argv) }

\* C7: checkRequired reports a validation failure (an error, or a result
\* other than undefined) when a required name is missing from the tokens.
C7_MissingRequiredIsReported ==
  (fn = "checkRequired" /\ MissingRequired(input.options, input.argv) # {})
    => (ret.kind # "ok" \/ ret.value # Undefined)

\* C8 as amended: parseByChar returns the text strictly between the first
\* "<" and the last ">" after it, and the empty string when no ">" follows
\* the first "<".
C8_FirstOpenToLastClose ==
  fn = "parseByChar" =>
    LET i == IndexOf(input, "<")
        j == LastIndexOf(input, ">")
    IN  IF i > 0 /\ j > i
        THEN <<"<">> \o ret.value \o <<">">> = SubSeq(input, i, j)
        ELSE ret.value = << >>

\* C8's case: two ">" follow the first "<", and parseByChar has returned
C8_Witness ==
  /\ fn = "parseByChar"
  /\ \E i, j, k \in 1..Len(input) :
       i < j /\ j < k /\ input[i] = "<" /\ input[j] = ">" /\ input[k] = ">"
  /\ ">" \in Range(ret.value)

\* C8 as stated: parseByChar returns the text strictly between the first
\* "<" and the first ">" after it (the first matching pair), and the empty
\* string when there is no such pair.
C8_FirstMatchingPair ==
  fn = "parseByChar" =>
    LET i == IndexOf(input, "<")
        after == { j \in (i + 1)..Len(input) : input[j] = ">" }
    IN  IF i > 0 /\ after # {}
        THEN ret.value = SubSeq(input, i + 1, (CHOOSE j \in after : \A m \in after : j <= m) - 1)
        ELSE ret.value = << >>

\* a name or alias with the characters of its colour codes left out
ColourChars == {ESC, "[", "3", "4", "9", "m"}

PlainText(s) == SelectSeq(s, LAMBDA c : c \notin ColourChars)

\* C9: matchSubCmd is true exactly when the token equals the plain text of
\* the node's name or of one of its aliases, letter case included.
C9_MatchIffNameOrAlias ==
  fn = "matchSubCmd" =>
    LET meta == subCmds[input.node]
        keys == {PlainText(meta.name)} \cup { PlainText(meta.alias[k]) : k \in 1..Len(meta.alias) }
    IN  ret.value <=> input.token \in keys

\* C9's case: a token matched through a coloured alias, not through the name
C9_Witness ==
  /\ fn = "matchSubCmd"
  /\ ret.value = TRUE
  /\ input.token # PlainText(subCmds[input.node].name)
  /\ \E k \in 1..Len(subCmds[input.node].alias) :
       /\ ESC \in Range(subCmds[input.node].alias[k])
       /\ PlainText(subCmds[input.node].alias[k]) = input.token

\* the names from a top-level command down to node n
RECURSIVE PathTo(_, _)
PathTo(nodes, n) ==
  IF n = 0 THEN << >> ELSE Append(PathTo(nodes, nodes[n].parent), nodes[n].name)

\* C10: traverseToCall returns false exactly when no node matches, and
\* otherwise the names of a matching node's ancestors and of that node, in
\* root-to-node order, with no name of any other node.
C10_PathIsAncestorChain ==
  fn = "traverseToCall" =>
    LET matching == { n \in 1..Len(subCmds) : matchSubCmd(subCmds[n], input.token) }
    IN  /\ ret.found <=> matching # {}
        /\ ret.found => \E n \in matching : ret.path = PathTo(subCmds, n)

\* an entry list with the colour codes removed from every flags string
Uncoloured(list) ==
  [k \in 1..Len(list) |->
     IF Get(list[k], 1).t = "string"
     THEN [list[k] EXCEPT ![1] = Str(stripAnsi(list[k][1].v))]
     ELSE list[k]]

\* C11: compiling a flags string registers the same name, type, aliases,
\* hint and required status as compiling it with its colour codes removed
\* first, also when it holds a "[...]" group or a hint.
C11_ColourIsTransparent ==
  (fn = "parseCliArgs" /\ ret.kind = "ok")
    => LET plain == parseCliArgs(Uncoloured(input)).options
       IN  /\ ret.options.string = plain.string
           /\ ret.options.boolean = plain.boolean
           /\ ret.options.number = plain.number
           /\ ret.options.array = plain.array
           /\ ret.options.alias = plain.alias
           /\ ret.options.hints = plain.hints
           /\ ret.options.required = plain.required

\* the result formatArgs gives on an entry list, as the caller sees it
FormatResult(list) ==
  [kind |-> formatArgs(list).kind, rows |-> formatArgs(list).rows]

\* C12: formatArgs leaves the entry list passed to it unchanged, so that
\* formatArgs and parseCliArgs called on it afterwards give what they give
\* on a fresh copy of the entries.
C12_FormatArgsKeepsTheEntries ==
  fn = "formatArgs" =>
    /\ args = input
    /\ FormatResult(args) = ret
    /\ parseCliArgs(args) = parseCliArgs(input)

============================================================================
